---- MODULE Spec2Model ----
(***************************************************************************)
(* Model of the evaluation script evaluate_pii_model.py: the row loader,   *)
(* the label canonicalizer, the span matcher and the aggregator, together  *)
(* with the text normalization they rest on.                               *)
(*                                                                         *)
(* A Python str is a sequence of characters; a character is written as a   *)
(* TLA+ string ("a", " ", "U+03D2"). The label keys of a row are strings,  *)
(* and the value of a key is None or a list.                               *)
(***************************************************************************)
EXTENDS Integers, Sequences, FiniteSets, TLC

VARIABLES
    \* ---- main() / evaluate() ----
    pc,                  \* position in main()/evaluate()
    label_map_json,      \* args.label_map_json
    output_json,         \* args.output_json given?
    max_rows,            \* args.max_rows: <<>> is None, <<n>> is the int n
    canonical_label_map, \* dataset label -> canonical label
    idx,                 \* load_rows: index of the next CSV data row
    row,                 \* load_rows: the data row just read, <<>> if none
    text,                \* row yielded by load_rows: its text ...
    gold_dict,           \* ... and its parsed labels cell
    canonical_labels,    \* label argument of predict_entities for this row
    predicted_entities,  \* what predict_entities returned for this row
    pred_by_canonical,   \* canonical label -> set of normalized span texts
    scored,              \* dataset label -> what the row added for it
    counts,              \* dataset label -> [tp, fp, fn]
    rows_used,
    result,              \* the value evaluate() returns
    printed,             \* what main() has sent to stdout
    written,             \* what main() has written to the output file
    \* ---- history of the run (not program state) ----
    hist,
    \* ---- normalize_text applied to one input ----
    norm_pc, norm_in, norm_out, norm_again

evalvars == <<pc, label_map_json, output_json, max_rows, canonical_label_map,
              idx, row, text, gold_dict, canonical_labels, predicted_entities,
              pred_by_canonical, scored, counts, rows_used, result, printed,
              written, hist>>
normvars == <<norm_pc, norm_in, norm_out, norm_again>>
vars == <<evalvars, normvars>>

(***************************************************************************)
(* Bounds                                                                  *)
(***************************************************************************)
\* longest input string given to normalize_text
MaxLen == 3
\* most data rows in the CSV file
MaxRows == 2

(***************************************************************************)
(* Characters and strings                                                  *)
(***************************************************************************)
\* characters str.strip() strips and the pattern \s matches
Whitespace == {" ", "\t"}

\* str.isupper() of one character
IsUpperChar(c) == c \in {"A", "B", "J", "U+0130", "U+03D2"}

\* str.lower() of one character: a string, since U+0130 lowers to two
\* characters, and U+03D2 is an uppercase letter with no lowercase form
LowerChar(c) ==
    CASE c = "A" -> <<"a">>
      [] c = "B" -> <<"b">>
      [] c = "J" -> <<"j">>
      [] c = "U+0130" -> <<"i", "U+0307">>
      [] OTHER -> <<c>>

RECURSIVE Lower(_)
Lower(s) == IF s = <<>> THEN <<>> ELSE LowerChar(Head(s)) \o Lower(Tail(s))

RECURSIVE LStrip(_)
LStrip(s) ==
    IF s # <<>> /\ Head(s) \in Whitespace THEN LStrip(Tail(s)) ELSE s

RECURSIVE RStrip(_)
RStrip(s) ==
    IF s # <<>> /\ s[Len(s)] \in Whitespace
    THEN RStrip(SubSeq(s, 1, Len(s) - 1))
    ELSE s

Strip(s) == RStrip(LStrip(s))

\* re.sub(r"\s+", " ", s): every maximal run of whitespace becomes one space
RECURSIVE SubWhitespaceRuns(_)
SubWhitespaceRuns(s) ==
    IF s = <<>> THEN <<>>
    ELSE IF Head(s) \in Whitespace
         THEN <<" ">> \o SubWhitespaceRuns(LStrip(Tail(s)))
         ELSE <<Head(s)>> \o SubWhitespaceRuns(Tail(s))

\* a plausible slip: whitespace collapsed before the ends are stripped
NormalizeTextSubFirst(value) == Lower(SubWhitespaceRuns(value))

NormalizeText(value) == SubWhitespaceRuns(Lower(Strip(value)))

\* bool(s.strip()): is anything left after stripping?
IsBlank(s) == Strip(s) = <<>>

(***************************************************************************)
(* normalize_text on its own: every string up to MaxLen over an alphabet   *)
(* with a lowercase and an uppercase letter, two kinds of whitespace, a    *)
(* letter whose lowercase is two characters and an uppercase letter that   *)
(* has no lowercase                                                        *)
(***************************************************************************)
NormAlphabet == {"a", "A", " ", "\t", "U+0130", "U+03D2"}

RECURSIVE StringsUpTo(_, _)
StringsUpTo(alphabet, n) ==
    IF n = 0 THEN {<<>>}
    ELSE LET shorter == StringsUpTo(alphabet, n - 1)
         IN  shorter \cup {<<c>> \o s : c \in alphabet, s \in {t \in shorter : Len(t) = n - 1}}

NormInputs == StringsUpTo(NormAlphabet, MaxLen)

(***************************************************************************)
(* Labels and the canonical label map                                      *)
(***************************************************************************)
DEFAULT_CANONICAL_LABEL_MAP ==
    ("NAME_STUDENT" :> "person name") @@ ("EMAIL" :> "email address") @@
    ("USERNAME" :> "username") @@ ("ID_NUM" :> "id number") @@
    ("PHONE_NUM" :> "phone number") @@ ("URL_PERSONAL" :> "url") @@
    ("STREET_ADDRESS" :> "address")

\* the label keys the rows of the dataset use: two mapped ones and one the
\* default map does not know, equal to the canonical label of NAME_STUDENT
DatasetLabels == {"EMAIL", "NAME_STUDENT", "person name"}

\* the dataset labels in the order sorted() puts them (code point order)
LabelOrder == <<"EMAIL", "NAME_STUDENT", "person name">>

\* sorted(S) for a set S of dataset labels
Sorted(S) == SelectSeq(LabelOrder, LAMBDA l : l \in S)

\* canonical_label_map.get(label, label)
Canonical(map, label) == IF label \in DOMAIN map THEN map[label] ELSE label

\* --label-map-json: not given, a JSON text that is no object, an object
\* (its keys and values are JSON strings, which str() returns as they are)
LabelMapJsonChoices ==
    { [kind |-> "absent", map |-> <<>>],
      [kind |-> "nondict", map |-> <<>>],
      [kind |-> "dict", map |-> ("EMAIL" :> "person name")] }

\* dict.update: the entries of new win over those of old
Update(old, new) == new @@ old

(***************************************************************************)
(* The rows of the CSV file                                                *)
(***************************************************************************)
Str(s) == [kind |-> "str", s |-> s]
\* a gold value that is not a string (a number in the literal)
NonStr == [kind |-> "int", s |-> <<>>]

\* the value of one label key: None, or a list of gold values
GoldNone == [kind |-> "none", items |-> <<>>]
GoldList(items) == [kind |-> "list", items |-> items]

\* two lists of gold values: a span to be normalized beside a blank string
\* and a number; two spans
GoldA == GoldList(<<Str(<<"J", " ">>), Str(<<" ">>), NonStr>>)
GoldB == GoldList(<<Str(<<"j">>), Str(<<"B">>)>>)

\* two ways to give every label a value
GoldProfiles ==
    { ("NAME_STUDENT" :> GoldA) @@ ("person name" :> GoldB) @@ ("EMAIL" :> GoldB),
      ("NAME_STUDENT" :> GoldB) @@ ("person name" :> GoldNone) @@ ("EMAIL" :> GoldA) }

\* the mappings a labels cell can parse to: any set of label keys (none
\* too), valued as in one of the profiles
GoldDicts ==
    { [label \in keys |-> p[label]] : keys \in SUBSET DatasetLabels, p \in GoldProfiles }

\* a labels cell: text literal_eval rejects, a literal that is no dict, a dict
LabelCells ==
    { [kind |-> "unparseable", dict |-> <<>>],
      [kind |-> "notdict", dict |-> <<>>] }
    \cup { [kind |-> "dict", dict |-> d] : d \in GoldDicts }

\* the text field: empty or not (its content matters to the model alone)
Texts == {"", "some text"}

CsvRows == [text : Texts, cell : LabelCells]

(***************************************************************************)
(* What the model returns for a row                                        *)
(***************************************************************************)
Ent(label, txt) == [label |-> label, text |-> txt]

\* the lists of entities tried: none; one span twice, in two spellings and
\* in either order;
\* entities lacking a label or a text among spans under two labels; a span
\* of whitespace beside a span no gold value equals
PredictionChoices ==
    { <<>>,
      <<Ent("person name", <<"J", " ">>), Ent("person name", <<"j">>)>>,
      <<Ent("person name", <<"j">>), Ent("person name", <<"J", " ">>)>>,
      <<Ent("", <<"j">>), Ent("person name", <<"b">>), Ent("person name", <<>>),
        Ent("email address", <<"j">>)>>,
      <<Ent("person name", <<" ">>), Ent("person name", <<"x">>)>> }

(***************************************************************************)
(* Span matching for one row (evaluate, the body of the row loop)          *)
(***************************************************************************)
\* dataset_to_canonical
DatasetToCanonical(map, gold) == [label \in DOMAIN gold |-> Canonical(map, label)]

\* a plausible slip: the whole label vocabulary passed instead of the row's
CanonicalLabelsOfMap(map, gold) == {map[k] : k \in DOMAIN map}

\* canonical_labels: set(dataset_to_canonical.values())
CanonicalLabels(map, gold) ==
    {DatasetToCanonical(map, gold)[label] : label \in DOMAIN gold}

\* a plausible slip: an entity is kept for its label alone, its text empty
\* or not
PredByCanonicalAnyText(entities) ==
    LET kept == {i \in 1..Len(entities) : entities[i].label # ""}
        labels == {entities[i].label : i \in kept}
    IN  [label \in labels |->
            {NormalizeText(entities[i].text) : i \in {j \in kept : entities[j].label = label}}]

\* pred_by_canonical: the entities with a label and a text, grouped by label
\* into sets of normalized texts
PredByCanonical(entities) ==
    LET kept == {i \in 1..Len(entities) :
                    entities[i].label # "" /\ entities[i].text # <<>>}
        labels == {entities[i].label : i \in kept}
    IN  [label \in labels |->
            {NormalizeText(entities[i].text) : i \in {j \in kept : entities[j].label = label}}]

\* gold_dict.get(label, []) or []
GoldValues(gold, label) ==
    IF label \in DOMAIN gold /\ gold[label].kind = "list"
    THEN gold[label].items
    ELSE <<>>

\* a plausible slip: gold values compared as written, not normalized
GoldSetRaw(gold, label) ==
    LET gold_values == GoldValues(gold, label)
    IN  {gold_values[i].s : i \in {j \in 1..Len(gold_values) :
            gold_values[j].kind = "str" /\ ~IsBlank(gold_values[j].s)}}

\* gold_set
GoldSet(gold, label) ==
    LET gold_values == GoldValues(gold, label)
    IN  {NormalizeText(gold_values[i].s) : i \in {j \in 1..Len(gold_values) :
            gold_values[j].kind = "str" /\ ~IsBlank(gold_values[j].s)}}

\* a plausible slip: the predictions looked up under the dataset label
PredSetByDatasetLabel(by_canonical, map, label) ==
    IF label \in DOMAIN by_canonical THEN by_canonical[label] ELSE {}

\* pred_set: pred_by_canonical.get(canonical_label, set())
PredSet(by_canonical, map, label) ==
    LET canonical_label == Canonical(map, label)
    IN  IF canonical_label \in DOMAIN by_canonical
        THEN by_canonical[canonical_label]
        ELSE {}

\* a plausible slip: every gold span counted as missed
RowCountsAllMissed(gold_set, pred_set) ==
    [tp |-> Cardinality(gold_set \cap pred_set),
     fp |-> Cardinality(pred_set \ gold_set),
     fn |-> Cardinality(gold_set)]

\* tp, fp, fn of one label in one row
RowCounts(gold_set, pred_set) ==
    [tp |-> Cardinality(gold_set \cap pred_set),
     fp |-> Cardinality(pred_set \ gold_set),
     fn |-> Cardinality(gold_set \ pred_set)]

\* what the row adds for each of its labels, with the sets it was scored on
ScoreRow(map, gold, by_canonical) ==
    [label \in DOMAIN gold |->
        LET gold_set == GoldSet(gold, label)
            pred_set == PredSet(by_canonical, map, label)
            c == RowCounts(gold_set, pred_set)
        IN  [gold_set |-> gold_set, pred_set |-> pred_set,
             tp |-> c.tp, fp |-> c.fp, fn |-> c.fn]]

\* counts[label] of the defaultdict: zeros for a label not seen yet
CountsOf(cnts, label) ==
    IF label \in DOMAIN cnts THEN cnts[label] ELSE [tp |-> 0, fp |-> 0, fn |-> 0]

\* a plausible slip: the counts of a row assigned, not added
AddCountsAssigned(cnts, added) ==
    [label \in DOMAIN cnts \cup DOMAIN added |->
        IF label \in DOMAIN added
        THEN [tp |-> added[label].tp, fp |-> added[label].fp, fn |-> added[label].fn]
        ELSE cnts[label]]

\* counts after a row: counts[label][...] += ... for each label of the row
AddCounts(cnts, added) ==
    [label \in DOMAIN cnts \cup DOMAIN added |->
        IF label \in DOMAIN added
        THEN [tp |-> CountsOf(cnts, label).tp + added[label].tp,
              fp |-> CountsOf(cnts, label).fp + added[label].fp,
              fn |-> CountsOf(cnts, label).fn + added[label].fn]
        ELSE cnts[label]]

(***************************************************************************)
(* Metrics (evaluate, after the row loop)                                  *)
(*                                                                         *)
(* A float is kept as the exact fraction num/den; err marks the            *)
(* ZeroDivisionError a division by zero raises. round(x, 4) is kept as the *)
(* integer number of ten-thousandths. The two agree with the floats of the *)
(* script wherever no quotient is a rounding tie, which takes a            *)
(* denominator that is a multiple of 32.                                   *)
(***************************************************************************)
Zero == [err |-> FALSE, num |-> 0, den |-> 1]

\* n / d
Div(n, d) ==
    IF d = 0 THEN [err |-> TRUE, num |-> 0, den |-> 1]
    ELSE [err |-> FALSE, num |-> n, den |-> d]

\* a plausible slip: the guard on the denominator left out
PrecisionUnguarded(tp, fp) == Div(tp, tp + fp)

\* tp / (tp + fp) if (tp + fp) else 0.0
Precision(tp, fp) == IF tp + fp # 0 THEN Div(tp, tp + fp) ELSE Zero

\* tp / (tp + fn) if (tp + fn) else 0.0
Recall(tp, fn) == IF tp + fn # 0 THEN Div(tp, tp + fn) ELSE Zero

\* (2 * p * r / (p + r)) if (p + r) else 0.0
F1(p, r) ==
    IF p.err \/ r.err THEN [err |-> TRUE, num |-> 0, den |-> 1]
    ELSE IF p.num * r.den + r.num * p.den # 0
         THEN Div(2 * p.num * r.num, p.num * r.den + r.num * p.den)
         ELSE Zero

\* round(x, 4), in ten-thousandths; a tie goes to the even neighbour
Round4(x) ==
    LET q == (10000 * x.num) \div x.den
        r == (10000 * x.num) % x.den
    IN  IF 2 * r < x.den THEN q
        ELSE IF 2 * r > x.den THEN q + 1
        ELSE IF q % 2 = 0 THEN q ELSE q + 1

\* one entry of per_label, and overall_micro
Metrics(tp, fp, fn) ==
    LET precision == Precision(tp, fp)
        recall == Recall(tp, fn)
        f1 == F1(precision, recall)
    IN  [tp |-> tp, fp |-> fp, fn |-> fn,
         err |-> precision.err \/ recall.err \/ f1.err,
         precision |-> Round4(precision),
         recall |-> Round4(recall),
         f1 |-> Round4(f1)]

\* a plausible slip: the totals assigned instead of added to
TotalsLastOnly(cnts, labels) ==
    IF labels = <<>> THEN [tp |-> 0, fp |-> 0, fn |-> 0]
    ELSE cnts[labels[Len(labels)]]

\* total_tp, total_fp, total_fn after the loop over sorted(counts.items())
RECURSIVE Totals(_, _)
Totals(cnts, labels) ==
    IF labels = <<>> THEN [tp |-> 0, fp |-> 0, fn |-> 0]
    ELSE LET rest == Totals(cnts, Tail(labels))
             c == cnts[Head(labels)]
         IN  [tp |-> c.tp + rest.tp, fp |-> c.fp + rest.fp, fn |-> c.fn + rest.fn]

\* per_label
PerLabel(cnts) ==
    [label \in DOMAIN cnts |-> Metrics(cnts[label].tp, cnts[label].fp, cnts[label].fn)]

\* result
Result(cnts, used, map) ==
    LET total == Totals(cnts, Sorted(DOMAIN cnts))
    IN  [rows_used |-> used,
         canonical_label_map |-> map,
         overall_micro |-> Metrics(total.tp, total.fp, total.fn),
         per_label |-> PerLabel(cnts)]

(***************************************************************************)
(* The sets the properties speak of, written from their wording and kept   *)
(* apart from the operators above: the history of a run is recorded with   *)
(* them                                                                    *)
(***************************************************************************)
\* the canonical label of a dataset label: its entry in the map, else itself
CanonicalOf(map, label) == IF label \in DOMAIN map THEN map[label] ELSE label

\* G: the normalized gold values of a label that are strings and not blank
GoldSpans(gold, label) ==
    IF gold[label].kind # "list" THEN {}
    ELSE LET values == {gold[label].items[i] : i \in 1..Len(gold[label].items)}
         IN  {NormalizeText(v.s) : v \in {w \in values : w.kind = "str" /\ Strip(w.s) # <<>>}}

\* P: the normalized texts of the entities predicted with a given label
PredictedSpans(entities, canonical_label) ==
    LET ents == {entities[i] : i \in 1..Len(entities)}
    IN  {NormalizeText(e.text) :
            e \in {f \in ents : f.label = canonical_label /\ f.label # "" /\ f.text # <<>>}}

\* the sum of the values of a function with a finite domain
RECURSIVE SumOf(_)
SumOf(f) ==
    IF DOMAIN f = {} THEN 0
    ELSE LET x == CHOOSE y \in DOMAIN f : TRUE
         IN  f[x] + SumOf([y \in DOMAIN f \ {x} |-> f[y]])

(***************************************************************************)
(* The run: main() calling evaluate(), which pulls rows from load_rows()   *)
(***************************************************************************)
NoLabels == [label \in {} |-> 0]

NoHistory ==
    [model_loaded |-> FALSE, exception |-> "none", skipped |-> 0, yielded |-> 0, nonempty |-> 0,
     calls |-> 0,
     gold_sum |-> [label \in DatasetLabels |-> 0],
     pred_sum |-> [label \in DatasetLabels |-> 0]]

NormIdle ==
    /\ norm_pc = "idle"
    /\ norm_in = <<>>
    /\ norm_out = <<>>
    /\ norm_again = <<>>

\* the command lines tried: every row cap with the default label map and
\* no output file; a label map override or an output file with the caps
\* that end the run before the last row
CommandLines ==
    { c \in [max_rows : {<<>>} \cup {<<n>> : n \in 0..MaxRows},
             label_map_json : LabelMapJsonChoices,
             output_json : BOOLEAN] :
        \/ c.label_map_json.kind = "absent" /\ ~c.output_json
        \/ c.max_rows # <<>> /\ c.max_rows[1] < MaxRows }

\* the command line is parsed; nothing has run yet
Init ==
    /\ pc = "main"
    /\ \E c \in CommandLines :
         /\ label_map_json = c.label_map_json
         /\ output_json = c.output_json
         /\ max_rows = c.max_rows
    /\ canonical_label_map = NoLabels
    /\ idx = 0
    /\ row = <<>>
    /\ text = ""
    /\ gold_dict = NoLabels
    /\ canonical_labels = {}
    /\ predicted_entities = <<>>
    /\ pred_by_canonical = NoLabels
    /\ scored = NoLabels
    /\ counts = NoLabels
    /\ rows_used = 0
    /\ result = <<>>
    /\ printed = <<>>
    /\ written = <<>>
    /\ hist = NoHistory
    /\ NormIdle

RowLocalsCleared ==
    /\ text' = ""
    /\ gold_dict' = NoLabels
    /\ canonical_labels' = {}
    /\ predicted_entities' = <<>>
    /\ pred_by_canonical' = NoLabels
    /\ scored' = NoLabels

\* a plausible slip: the test of what --label-map-json decodes to left out
NotAMappingNever(user_map) == FALSE

\* main: not isinstance(user_map, dict)
NotAMapping(user_map) == user_map.kind = "nondict"

\* main: the label map is the default one, updated with the entries of
\* --label-map-json; a JSON text that is no object raises ValueError
MainLabelMap ==
    /\ pc = "main"
    /\ IF NotAMapping(label_map_json)
       THEN /\ pc' = "raised"
            /\ hist' = [hist EXCEPT !.exception = "ValueError"]
            /\ UNCHANGED canonical_label_map
       ELSE /\ pc' = "evaluate"
            /\ canonical_label_map' =
                 IF label_map_json.kind = "dict"
                 THEN Update(DEFAULT_CANONICAL_LABEL_MAP, label_map_json.map)
                 ELSE DEFAULT_CANONICAL_LABEL_MAP
            /\ UNCHANGED hist
    /\ UNCHANGED <<label_map_json, output_json, max_rows, idx, row, text, gold_dict,
                   canonical_labels, predicted_entities, pred_by_canonical,
                   scored, counts, rows_used, result, printed, written>>
    /\ UNCHANGED normvars

\* evaluate: the model is loaded, the accumulators start empty
EvaluateStart ==
    /\ pc = "evaluate"
    /\ pc' = "load"
    /\ counts' = NoLabels
    /\ rows_used' = 0
    /\ hist' = [hist EXCEPT !.model_loaded = TRUE]
    /\ UNCHANGED <<label_map_json, output_json, max_rows, canonical_label_map,
                   idx, row, text, gold_dict, canonical_labels, predicted_entities,
                   pred_by_canonical, scored, result, printed, written>>
    /\ UNCHANGED normvars

\* a plausible slip: the cap counted in rows yielded, not in rows read
CapReachedByYielded == max_rows # <<>> /\ hist.yielded >= max_rows[1]

\* load_rows: max_rows is not None and idx >= max_rows
CapReached == max_rows # <<>> /\ idx >= max_rows[1]

\* a plausible slip: a literal that is no dict let through
SkipRowUnlessUnparseable(r) == r.text = "" \/ r.cell.kind = "unparseable"

\* load_rows: the row is passed over (empty text, a labels cell that
\* literal_eval rejects or that is no dict)
SkipRow(r) == r.text = "" \/ r.cell.kind # "dict"

\* load_rows: the reader has a further row, and the cap is not reached: the
\* row's two fields are taken
LoadRowsRead ==
    /\ pc = "load"
    /\ idx < MaxRows
    /\ ~CapReached
    /\ \E r \in CsvRows : row' = <<r>>
    /\ pc' = "loaded"
    /\ UNCHANGED <<label_map_json, output_json, max_rows, canonical_label_map,
                   idx, text, gold_dict, canonical_labels, predicted_entities,
                   pred_by_canonical, scored, counts, rows_used, result,
                   printed, written, hist>>
    /\ UNCHANGED normvars

\* load_rows: the reader has a further row, but the cap is reached: break
LoadRowsBreak ==
    /\ pc = "load"
    /\ CapReached
    /\ pc' = "finish"
    /\ UNCHANGED <<label_map_json, output_json, max_rows, canonical_label_map,
                   idx, row, text, gold_dict, canonical_labels,
                   predicted_entities, pred_by_canonical, scored, counts,
                   rows_used, result, printed, written, hist>>
    /\ UNCHANGED normvars

\* load_rows: the reader has no further row
LoadRowsExhausted ==
    /\ pc = "load"
    /\ pc' = "finish"
    /\ UNCHANGED <<label_map_json, output_json, max_rows, canonical_label_map,
                   idx, row, text, gold_dict, canonical_labels,
                   predicted_entities, pred_by_canonical, scored, counts,
                   rows_used, result, printed, written, hist>>
    /\ UNCHANGED normvars

\* load_rows: continue, on to the next row
LoadRowsSkip ==
    /\ pc = "loaded"
    /\ SkipRow(row[1])
    /\ pc' = "load"
    /\ idx' = idx + 1
    /\ row' = <<>>
    /\ hist' = [hist EXCEPT !.skipped = @ + 1]
    /\ UNCHANGED <<label_map_json, output_json, max_rows, canonical_label_map,
                   text, gold_dict, canonical_labels, predicted_entities,
                   pred_by_canonical, scored, counts, rows_used, result,
                   printed, written>>
    /\ UNCHANGED normvars

\* load_rows: yield text, labels_dict
LoadRowsYield ==
    /\ pc = "loaded"
    /\ ~SkipRow(row[1])
    /\ pc' = "row"
    /\ idx' = idx + 1
    /\ row' = <<>>
    /\ text' = row[1].text
    /\ gold_dict' = row[1].cell.dict
    /\ hist' = [hist EXCEPT !.yielded = @ + 1,
                            !.nonempty = IF row[1].cell.kind = "dict"
                                            /\ DOMAIN row[1].cell.dict # {}
                                         THEN @ + 1 ELSE @]
    /\ UNCHANGED <<label_map_json, output_json, max_rows, canonical_label_map,
                   canonical_labels, predicted_entities, pred_by_canonical,
                   scored, counts, rows_used, result, printed, written>>
    /\ UNCHANGED normvars

\* a plausible slip: the test for a row without labels left out
NoDatasetLabelsNever(gold) == FALSE

\* evaluate: not dataset_labels
NoDatasetLabels(gold) == Sorted(DOMAIN gold) = <<>>

\* evaluate: a row without label keys is passed over
EvaluateNoLabels ==
    /\ pc = "row"
    /\ NoDatasetLabels(gold_dict)
    /\ pc' = "load"
    /\ RowLocalsCleared
    /\ UNCHANGED <<label_map_json, output_json, max_rows, canonical_label_map,
                   idx, row, counts, rows_used, result, printed, written, hist>>
    /\ UNCHANGED normvars

\* evaluate: the model is asked and raises; nothing catches it
EvaluatePredictRaises ==
    /\ pc = "row"
    /\ ~NoDatasetLabels(gold_dict)
    /\ canonical_labels' = CanonicalLabels(canonical_label_map, gold_dict)
    /\ hist' = [hist EXCEPT !.calls = @ + 1, !.exception = "predict_entities"]
    /\ pc' = "raised"
    /\ UNCHANGED <<label_map_json, output_json, max_rows, canonical_label_map,
                   idx, row, text, gold_dict, predicted_entities,
                   pred_by_canonical, scored, counts, rows_used, result,
                   printed, written>>
    /\ UNCHANGED normvars

\* evaluate: the model is asked for the row's canonical labels and answers;
\* the predictions are grouped, every label of the row is scored and added
\* to counts, and the row is counted
EvaluateRow ==
    /\ pc = "row"
    /\ ~NoDatasetLabels(gold_dict)
    /\ canonical_labels' = CanonicalLabels(canonical_label_map, gold_dict)
    /\ \E entities \in PredictionChoices :
         LET by_canonical == PredByCanonical(entities)
             added == ScoreRow(canonical_label_map, gold_dict, by_canonical)
         IN  /\ predicted_entities' = entities
             /\ pred_by_canonical' = by_canonical
             /\ scored' = added
             /\ counts' = AddCounts(counts, added)
             /\ hist' = [hist EXCEPT
                  !.calls = @ + 1,
                  !.gold_sum = [label \in DatasetLabels |->
                      IF label \in DOMAIN gold_dict
                      THEN @[label] + Cardinality(GoldSpans(gold_dict, label))
                      ELSE @[label]],
                  !.pred_sum = [label \in DatasetLabels |->
                      IF label \in DOMAIN gold_dict
                      THEN @[label] + Cardinality(PredictedSpans(entities,
                              CanonicalOf(canonical_label_map, label)))
                      ELSE @[label]]]
    /\ rows_used' = rows_used + 1
    /\ pc' = "scored"
    /\ UNCHANGED <<label_map_json, output_json, max_rows, canonical_label_map,
                   idx, row, text, gold_dict, result, printed, written>>
    /\ UNCHANGED normvars

\* evaluate: the row loop asks load_rows for the next row; what the finished
\* iteration bound is not read again
EvaluateNextRow ==
    /\ pc = "scored"
    /\ pc' = "load"
    /\ RowLocalsCleared
    /\ UNCHANGED <<label_map_json, output_json, max_rows, canonical_label_map,
                   idx, row, counts, rows_used, result, printed, written, hist>>
    /\ UNCHANGED normvars

\* evaluate: the metrics are computed and the result returned; a division by
\* zero would raise
EvaluateResult ==
    /\ pc = "finish"
    /\ LET r == Result(counts, rows_used, canonical_label_map)
       IN  IF r.overall_micro.err \/ \E label \in DOMAIN r.per_label : r.per_label[label].err
           THEN /\ pc' = "raised"
                /\ hist' = [hist EXCEPT !.exception = "ZeroDivisionError"]
                /\ UNCHANGED result
           ELSE /\ pc' = "return"
                /\ result' = <<r>>
                /\ UNCHANGED hist
    /\ UNCHANGED <<label_map_json, output_json, max_rows, canonical_label_map,
                   idx, row, text, gold_dict, canonical_labels,
                   predicted_entities, pred_by_canonical, scored, counts,
                   rows_used, printed, written>>
    /\ UNCHANGED normvars

\* main: the result is printed, and written to --output-json if given
MainOutput ==
    /\ pc = "return"
    /\ printed' = result
    /\ written' = IF output_json THEN result ELSE <<>>
    /\ pc' = "done"
    /\ UNCHANGED <<label_map_json, output_json, max_rows, canonical_label_map,
                   idx, row, text, gold_dict, canonical_labels,
                   predicted_entities, pred_by_canonical, scored, counts,
                   rows_used, result, hist>>
    /\ UNCHANGED normvars

Next ==
    \/ MainLabelMap
    \/ EvaluateStart
    \/ LoadRowsRead
    \/ LoadRowsBreak
    \/ LoadRowsExhausted
    \/ LoadRowsSkip
    \/ LoadRowsYield
    \/ EvaluateNoLabels
    \/ EvaluatePredictRaises
    \/ EvaluateRow
    \/ EvaluateNextRow
    \/ EvaluateResult
    \/ MainOutput

Spec == Init /\ [][Next]_vars

(***************************************************************************)
(* normalize_text applied to a string, and again to what it returned       *)
(***************************************************************************)
EvalIdle ==
    /\ pc = "idle"
    /\ label_map_json = [kind |-> "absent", map |-> <<>>]
    /\ output_json = FALSE
    /\ max_rows = <<>>
    /\ canonical_label_map = NoLabels
    /\ idx = 0
    /\ row = <<>>
    /\ text = ""
    /\ gold_dict = NoLabels
    /\ canonical_labels = {}
    /\ predicted_entities = <<>>
    /\ pred_by_canonical = NoLabels
    /\ scored = NoLabels
    /\ counts = NoLabels
    /\ rows_used = 0
    /\ result = <<>>
    /\ printed = <<>>
    /\ written = <<>>
    /\ hist = NoHistory

NormInit ==
    /\ EvalIdle
    /\ norm_pc = "start"
    /\ norm_in \in NormInputs
    /\ norm_out = <<>>
    /\ norm_again = <<>>

NormalizeOnce ==
    /\ norm_pc = "start"
    /\ norm_out' = NormalizeText(norm_in)
    /\ norm_pc' = "once"
    /\ UNCHANGED <<norm_in, norm_again>>
    /\ UNCHANGED evalvars

NormalizeAgain ==
    /\ norm_pc = "once"
    /\ norm_again' = NormalizeText(norm_out)
    /\ norm_pc' = "twice"
    /\ UNCHANGED <<norm_in, norm_out>>
    /\ UNCHANGED evalvars

NormNext == NormalizeOnce \/ NormalizeAgain

SpecNorm == NormInit /\ [][NormNext]_vars

(***************************************************************************)
(* Properties                                                              *)
(***************************************************************************)
Finished == pc \in {"return", "done"}

\* C1: after any number of processed rows, for every dataset label L,
\* tp + fn of L is the sum, over the processed rows that have L, of the size
\* of the row's normalized gold set of L, and tp + fp of L is the sum over
\* those rows of the size of the normalized predicted set of the canonical
\* label L maps to.
C1_CountsAddUpToSetSizes ==
    \A label \in DatasetLabels :
        /\ CountsOf(counts, label).tp + CountsOf(counts, label).fn = hist.gold_sum[label]
        /\ CountsOf(counts, label).tp + CountsOf(counts, label).fp = hist.pred_sum[label]

\* two rows are processed, and a label has hits, misses and false alarms
C1_Witness ==
    /\ rows_used = 2
    /\ \E label \in DOMAIN counts :
        /\ counts[label].tp >= 1 /\ counts[label].fp >= 1 /\ counts[label].fn >= 1
        /\ hist.gold_sum[label] >= 3
    /\ \E label \in DatasetLabels : label \notin DOMAIN counts

\* C2: when evaluate returns, rows_used is the number of rows load_rows
\* yielded whose gold mapping has a label key; a yielded row without label
\* keys changes neither rows_used nor counts and the model is not invoked
\* for it.
C2_RowsUsedCountsRowsWithLabels ==
    /\ [](Finished => /\ rows_used = hist.nonempty
                      /\ result[1].rows_used = hist.nonempty)
    /\ [][(pc = "row" /\ DOMAIN gold_dict = {}) =>
            /\ pc' = "load"
            /\ rows_used' = rows_used
            /\ counts' = counts
            /\ hist'.calls = hist.calls]_vars

\* a run is over that was given a row without label keys and a row with some
C2_Witness ==
    /\ pc = "done"
    /\ hist.yielded = 2
    /\ hist.nonempty = 1
    /\ rows_used = 1

\* C3: with max_rows = N (N >= 0) only the data rows of index below N are examined,
\* skipped or not: the rows yielded, and rows_used, are at most N less the
\* rows skipped, and no row of index N or more is read or yielded.
C3_CapBoundsRowsRead ==
    max_rows # <<>> =>
        /\ idx <= max_rows[1]
        /\ (pc = "loaded" => idx < max_rows[1])
        /\ hist.yielded + hist.skipped = idx
        /\ hist.yielded <= max_rows[1] - hist.skipped
        /\ rows_used <= max_rows[1] - hist.skipped

\* a capped run ended by the cap after a skipped and a scored row
C3_Witness ==
    /\ pc = "done"
    /\ max_rows # <<>>
    /\ max_rows[1] = 2
    /\ idx = 2
    /\ hist.skipped = 1
    /\ rows_used = 1

\* the row has an empty text, or a labels cell that does not parse as a
\* literal, or one that parses to something that is no mapping
BadRow(r) == r.text = "" \/ r.cell.kind \in {"unparseable", "notdict"}

\* C4: a row with an empty text, or a labels cell that does not parse or is
\* no mapping, is passed over: it is not yielded, the run goes on with the
\* next row, and rows_used and counts stay as they are.
C4_BadRowsAreSkipped ==
    [][(pc = "loaded" /\ BadRow(row[1])) =>
            /\ pc' = "load"
            /\ idx' = idx + 1
            /\ hist'.yielded = hist.yielded
            /\ hist'.exception = "none"
            /\ rows_used' = rows_used
            /\ counts' = counts
            /\ text' = text /\ gold_dict' = gold_dict]_vars

\* a row is scored after the row before it was skipped
C4_Witness ==
    /\ pc = "scored"
    /\ idx = 2
    /\ hist.skipped = 1
    /\ rows_used = 1

\* C5: a processed row adds, for each of its labels L, tp = |G \cap P|,
\* fp = |P \ G| and fn = |G \ P|, G being the normalized gold values of L
\* that are strings and not blank and P the normalized predicted texts of
\* the canonical label of L; the counts of the other labels stay.
C5_RowAddsSetCounts ==
    [][(pc = "row" /\ pc' = "scored") =>
        \A label \in DatasetLabels :
            IF label \in DOMAIN gold_dict
            THEN LET G == GoldSpans(gold_dict, label)
                     P == PredictedSpans(predicted_entities',
                                         CanonicalOf(canonical_label_map, label))
                 IN  /\ CountsOf(counts', label).tp =
                            CountsOf(counts, label).tp + Cardinality(G \cap P)
                     /\ CountsOf(counts', label).fp =
                            CountsOf(counts, label).fp + Cardinality(P \ G)
                     /\ CountsOf(counts', label).fn =
                            CountsOf(counts, label).fn + Cardinality(G \ P)
            ELSE CountsOf(counts', label) = CountsOf(counts, label)]_vars

\* a gold value and a predicted text that differ as written and are equal
\* once normalized gave tp = 1, fp = 0, fn = 0
C5_Witness ==
    /\ pc = "scored"
    /\ \E label \in DOMAIN scored :
        /\ gold_dict[label] = GoldA
        /\ \E i \in 1..Len(predicted_entities) :
              /\ predicted_entities[i].label = CanonicalOf(canonical_label_map, label)
              /\ predicted_entities[i].text = <<"j">>
        /\ scored[label].tp = 1 /\ scored[label].fp = 0 /\ scored[label].fn = 0

\* the entries of the per_label table of a result, summed field by field
TableSum(r) ==
    [tp |-> SumOf([label \in DOMAIN r.per_label |-> r.per_label[label].tp]),
     fp |-> SumOf([label \in DOMAIN r.per_label |-> r.per_label[label].fp]),
     fn |-> SumOf([label \in DOMAIN r.per_label |-> r.per_label[label].fn])]

\* C6: in the result, tp, fp and fn of overall_micro are the sums of tp, fp
\* and fn over the entries of per_label, and the micro precision, recall and
\* F1 come from those sums by the formulas of the per-label metrics.
C6_MicroFromSummedCounts ==
    Finished =>
        LET r == result[1]
            total == TableSum(r)
        IN  /\ r.overall_micro.tp = total.tp
            /\ r.overall_micro.fp = total.fp
            /\ r.overall_micro.fn = total.fn
            /\ r.overall_micro.precision = Round4(Precision(total.tp, total.fp))
            /\ r.overall_micro.recall = Round4(Recall(total.tp, total.fn))
            /\ r.overall_micro.f1 =
                  Round4(F1(Precision(total.tp, total.fp), Recall(total.tp, total.fn)))
            /\ \A label \in DOMAIN r.per_label :
                  LET e == r.per_label[label]
                  IN  /\ e.precision = Round4(Precision(e.tp, e.fp))
                      /\ e.recall = Round4(Recall(e.tp, e.fn))
                      /\ e.f1 = Round4(F1(Precision(e.tp, e.fp), Recall(e.tp, e.fn)))

\* a result with several labels whose micro F1 is not the mean of their F1
C6_Witness ==
    /\ pc = "done"
    /\ LET r == result[1]
       IN  /\ Cardinality(DOMAIN r.per_label) >= 2
           /\ r.overall_micro.tp >= 1
           /\ r.overall_micro.fp >= 1
           /\ r.overall_micro.f1 * Cardinality(DOMAIN r.per_label) #
                 SumOf([label \in DOMAIN r.per_label |-> r.per_label[label].f1])

\* the string has whitespace at neither end, no two whitespace characters in
\* a row, and only spaces for whitespace
Trimmed(s) ==
    /\ s # <<>> => (s[1] \notin Whitespace /\ s[Len(s)] \notin Whitespace)
    /\ \A i \in 1..Len(s) : s[i] \in Whitespace => s[i] = " "
    /\ \A i \in 1..(Len(s) - 1) : ~(s[i] \in Whitespace /\ s[i + 1] \in Whitespace)

C8_SharedCanonicalSharesPredictions ==
    pc = "scored" =>
        \A l1 \in DOMAIN scored, l2 \in DOMAIN scored :
            CanonicalOf(canonical_label_map, l1) = CanonicalOf(canonical_label_map, l2) =>
                LET P == PredictedSpans(predicted_entities,
                                        CanonicalOf(canonical_label_map, l1))
                    neither == P \ (GoldSpans(gold_dict, l1) \cup GoldSpans(gold_dict, l2))
                IN  /\ scored[l1].pred_set = P
                    /\ scored[l2].pred_set = P
                    /\ scored[l1].fp >= Cardinality(neither)
                    /\ scored[l2].fp >= Cardinality(neither)
                    /\ scored[l1].fp = Cardinality(P \ GoldSpans(gold_dict, l1))

\* two labels of one canonical label with different gold sets, and a
\* predicted span in neither of them
C8_Witness ==
    /\ pc = "scored"
    /\ \E l1 \in DOMAIN scored, l2 \in DOMAIN scored :
        /\ l1 # l2
        /\ CanonicalOf(canonical_label_map, l1) = CanonicalOf(canonical_label_map, l2)
        /\ scored[l1].gold_set # scored[l2].gold_set
        /\ scored[l1].gold_set # {} /\ scored[l2].gold_set # {}
        /\ scored[l1].pred_set \ (scored[l1].gold_set \cup scored[l2].gold_set) # {}
        /\ scored[l1].fp >= 1 /\ scored[l2].fp >= 1

\* precision, recall and F1 of an entry are 0 where their denominator is 0
ZeroWhereUndefined(e) ==
    /\ (e.tp + e.fp = 0 => e.precision = 0)
    /\ (e.tp + e.fn = 0 => e.recall = 0)
    /\ (e.precision + e.recall = 0 => e.f1 = 0)
    /\ (e.tp = 0 => e.f1 = 0)

\* C9: precision, recall and F1, per label and micro, are 0 where their
\* denominator is 0, and no division by zero is raised; a label with gold
\* spans and no predictions in the whole run ends with tp = 0, fp = 0,
\* fn = the number of its gold spans, and precision = recall = F1 = 0.
C9_ZeroDenominatorsGiveZero ==
    /\ hist.exception # "ZeroDivisionError"
    /\ Finished =>
        LET r == result[1]
        IN  /\ ZeroWhereUndefined(r.overall_micro)
            /\ \A label \in DOMAIN r.per_label :
                /\ ZeroWhereUndefined(r.per_label[label])
                /\ hist.pred_sum[label] = 0 =>
                      /\ r.per_label[label].tp = 0
                      /\ r.per_label[label].fp = 0
                      /\ r.per_label[label].fn = hist.gold_sum[label]
                      /\ r.per_label[label].precision = 0
                      /\ r.per_label[label].recall = 0
                      /\ r.per_label[label].f1 = 0

\* a result with a label that has gold spans and no prediction, and a label
\* that has neither
C9_Witness ==
    /\ pc = "done"
    /\ \E label \in DOMAIN result[1].per_label :
        /\ hist.pred_sum[label] = 0
        /\ result[1].per_label[label].fn >= 1
    /\ \E label \in DOMAIN result[1].per_label :
        LET e == result[1].per_label[label] IN e.tp + e.fp + e.fn = 0

\* C10: the labels given to the model for a row are the canonical labels of
\* the row's gold label keys, each key mapped through the canonical label
\* map or kept if the map has no entry for it, and nothing else; the model
\* is invoked once for each processed row.
C10_ModelGetsRowsCanonicalLabels ==
    /\ pc = "scored" =>
        /\ canonical_labels =
              {CanonicalOf(canonical_label_map, key) : key \in DOMAIN gold_dict}
        /\ hist.calls = rows_used
    /\ hist.exception = "predict_entities" =>
        /\ canonical_labels =
              {CanonicalOf(canonical_label_map, key) : key \in DOMAIN gold_dict}
        /\ hist.calls = rows_used + 1
    /\ pc \in {"load", "loaded", "row", "finish", "return", "done"} =>
        hist.calls = rows_used

\* three label keys, one of them not in the map, gave two canonical labels
C10_Witness ==
    /\ pc = "scored"
    /\ Cardinality(DOMAIN gold_dict) = 3
    /\ Cardinality(canonical_labels) = 2
    /\ \E key \in DOMAIN gold_dict :
          key \notin DOMAIN canonical_label_map /\ key \in canonical_labels

\* C11: a result is printed or written only when the row loop has ended and
\* nothing was raised; a --label-map-json that decodes to no mapping ends
\* the run before the model is loaded and before a row is read; a model
\* invocation that raises ends the run with nothing printed or written,
\* whatever rows were scored before.
C11_OutputOnlyAfterAllRows ==
    /\ (printed # <<>> \/ written # <<>>) =>
            /\ pc = "done"
            /\ hist.exception = "none"
            /\ printed = result
            /\ written \in {<<>>, result}
            /\ row = <<>>
            /\ hist.yielded + hist.skipped = idx
            /\ result[1].rows_used = hist.nonempty
    /\ label_map_json.kind = "nondict" =>
            /\ pc \in {"main", "raised"}
            /\ ~hist.model_loaded
            /\ idx = 0 /\ hist.calls = 0
            /\ printed = <<>> /\ written = <<>>
    /\ hist.exception # "none" =>
            /\ pc = "raised"
            /\ result = <<>> /\ printed = <<>> /\ written = <<>>

\* the model raised on the second row, after the first was scored, and
\* nothing has been printed or written
C11_Witness ==
    /\ pc = "raised"
    /\ hist.exception = "predict_entities"
    /\ rows_used = 1
    /\ \E label \in DOMAIN counts : counts[label].tp >= 1
    /\ printed = <<>> /\ written = <<>>

\* the lists that hold the entries of a list in another order
Reorderings(entities) ==
    LET n == Len(entities)
        perms == {p \in [1..n -> 1..n] : \A i, j \in 1..n : p[i] = p[j] => i = j}
    IN  {[i \in 1..n |-> entities[p[i]]] : p \in perms}

\* C12: once a row is scored, pred_by_canonical has a key for each label of
\* an entity with a non-empty label and a non-empty text and for nothing
\* else, and holds under it the set of the normalized texts of those
\* entities; a label's tp + fp is the size of that set, however often a
\* span was predicted; and the entities in any other order give the same
\* counts.
C12_PredictionsGroupedAsSets ==
    pc = "scored" =>
        LET whole == {i \in 1..Len(predicted_entities) :
                        /\ predicted_entities[i].label # ""
                        /\ predicted_entities[i].text # <<>>}
        IN  /\ DOMAIN pred_by_canonical = {predicted_entities[i].label : i \in whole}
            /\ \A label \in DOMAIN pred_by_canonical :
                  pred_by_canonical[label] = PredictedSpans(predicted_entities, label)
            /\ \A label \in DOMAIN scored :
                  /\ scored[label].pred_set =
                        PredictedSpans(predicted_entities,
                                       CanonicalOf(canonical_label_map, label))
                  /\ scored[label].tp + scored[label].fp =
                        Cardinality(scored[label].pred_set)
            /\ \A other \in Reorderings(predicted_entities) :
                  /\ PredByCanonical(other) = pred_by_canonical
                  /\ ScoreRow(canonical_label_map, gold_dict, PredByCanonical(other)) = scored

\* two entities of one label whose texts differ as written and are one span
\* once normalized were counted as one predicted span
C12_Witness ==
    /\ pc = "scored"
    /\ Len(predicted_entities) = 2
    /\ predicted_entities[1].label = predicted_entities[2].label
    /\ predicted_entities[1].text # predicted_entities[2].text
    /\ predicted_entities[1].text = <<"J", " ">>
    /\ pred_by_canonical[predicted_entities[1].label] = {<<"j">>}
    /\ \E label \in DOMAIN scored :
          /\ CanonicalOf(canonical_label_map, label) = predicted_entities[1].label
          /\ scored[label].tp + scored[label].fp = 1

\* C13: tp, fp and fn of every entry of counts are at least 0 and no step
\* of a run lowers one of them; counts gets its keys from the label keys of
\* the rows scored, so a row changes the entries of its own labels only,
\* each by what its own gold set gives, and a label of another row that has
\* the same canonical label keeps its counts.
C13_CountsGrowPerDatasetLabel ==
    /\ [](\A label \in DOMAIN counts :
            counts[label].tp >= 0 /\ counts[label].fp >= 0 /\ counts[label].fn >= 0)
    /\ [][/\ \A label \in DatasetLabels :
                /\ CountsOf(counts', label).tp >= CountsOf(counts, label).tp
                /\ CountsOf(counts', label).fp >= CountsOf(counts, label).fp
                /\ CountsOf(counts', label).fn >= CountsOf(counts, label).fn
          /\ IF pc = "row" /\ pc' = "scored"
             THEN /\ DOMAIN counts' = DOMAIN counts \cup DOMAIN gold_dict
                  /\ \A label \in DOMAIN counts \ DOMAIN gold_dict :
                        counts'[label] = counts[label]
                  /\ \A label \in DOMAIN gold_dict :
                        (CountsOf(counts', label).tp + CountsOf(counts', label).fn)
                          - (CountsOf(counts, label).tp + CountsOf(counts, label).fn)
                        = Cardinality(GoldSpans(gold_dict, label))
             ELSE counts' = counts]_vars

\* after two rows, two labels of one canonical label have different counts,
\* one of them with a tp from each row
C13_Witness ==
    /\ pc = "scored"
    /\ rows_used = 2
    /\ \E l1 \in DOMAIN counts, l2 \in DOMAIN counts :
        /\ l1 # l2
        /\ CanonicalOf(canonical_label_map, l1) = CanonicalOf(canonical_label_map, l2)
        /\ l1 # CanonicalOf(canonical_label_map, l1)
        /\ counts[l1] # counts[l2]
        /\ counts[l1].tp = 2
====
